---------------------------- MODULE Spec2Model ----------------------------
(***************************************************************************)
(* Model of hdusd/mx_nodes/nodes/base_node.py.                             *)
(*                                                                         *)
(*   Spec        the graph compiler: MxNode.compute, _compute_node,        *)
(*               get_input_link, get_input_value and the terminal node     *)
(*               MxNode_Output.compute, run over a node tree.              *)
(*   SpecSchema  create_node_types over a list of schema files:            *)
(*               MxNodedef.new, the grouping and MxNode.new.               *)
(*   SpecMapper  MxNode.create_property and parse_val on one schema        *)
(*               element.                                                  *)
(*                                                                         *)
(* The MaterialX document is modelled as the ordered list of the nodes the *)
(* compiler adds to it (doc.addNode, node.addInput, node.addParameter).    *)
(***************************************************************************)
EXTENDS Integers, Sequences, FiniteSets, TLC

VARIABLES
    nodes,          \* the node tree: its shader nodes, in creation order
    output,         \* the links on the Material Output node's three inputs
    pc,             \* "idle" before MxNode_Output.compute, "done" after it
    doc,            \* the document: the nodes added so far, in order
    calls,          \* completed MxNode.compute calls: node, out_key, node added
    log,            \* log.warn / log.error records
    result,         \* what MxNode_Output.compute returned (0: None)
    file_paths,     \* the schema files, each the node definitions it holds
    spc,            \* "idle" before create_node_types, "done" after it
    nodedef_types,  \* first value create_node_types returns
    node_types,     \* second value create_node_types returns
    mapper_calls,   \* the elements create_property was invoked on, per nodedef
    mx_param,       \* the schema element handed to create_property
    mpc,            \* "idle" before create_property, "done" after it
    mres            \* what create_property returned, and what it logged

vars == <<nodes, output, pc, doc, calls, log, result,
          file_paths, spc, nodedef_types, node_types, mapper_calls,
          mx_param, mpc, mres>>

compileVars == <<nodes, output, pc, doc, calls, log, result>>
schemaVars  == <<file_paths, spc, nodedef_types, node_types, mapper_calls>>
mapperVars  == <<mx_param, mpc, mres>>

None == 0

\* ------------------------------------------------------------------------
\* Bounds
\* ------------------------------------------------------------------------
MaxNodes == 3       \* shader nodes in the tree besides the Material Output
MaxDigits == 2      \* digits appended to a type family name in the type pool
MaxFiles == 2       \* schema files handed to create_node_types
MaxDefs == 3        \* node definitions in all the schema files together

\* ------------------------------------------------------------------------
\* utils.title_str / utils.code_str on the names the model uses
\* ------------------------------------------------------------------------
\* code_str: the identifier derived from a display name
code_str(s) ==
    CASE s = "Out"      -> "out"
      [] s = "Alpha"    -> "alpha"
      [] s = "Tex"      -> "tex"
      [] s = "Surface"  -> "surface"
      [] s = "Mix"      -> "mix"
      [] s = "Mix.001"  -> "mix_001"
      [] s = "Mix_001"  -> "mix_001"
      [] s = "Node"     -> "node"
      [] OTHER          -> s

\* title_str: the display name derived from an identifier
title_str(s) ==
    CASE s = "out"      -> "Out"
      [] s = "alpha"    -> "Alpha"
      [] OTHER          -> s

\* ------------------------------------------------------------------------
\* Node definitions the tree's nodes are instances of (mx.NodeDef objects)
\* ------------------------------------------------------------------------
El(n, t) == [name |-> n, type |-> t]

GraphNodeDefs ==
    [ ND_mix_color3 |->
        [node |-> "mix",
         params  |-> << El("amount", "float") >>,
         inputs  |-> << El("fg", "color3"), El("bg", "color3") >>,
         outputs |-> << El("out", "color3") >>],
      ND_standard_surface |->
        [node |-> "standard_surface",
         params  |-> << >>,
         inputs  |-> << El("base_color", "color3") >>,
         outputs |-> << El("out", "surfaceshader") >>],
      ND_tex |->
        [node |-> "image",
         params  |-> << El("file", "filename") >>,
         inputs  |-> << >>,
         outputs |-> << El("out", "color3"), El("alpha", "float") >>] ]

GraphDefIds == DOMAIN GraphNodeDefs

\* names of the value classes the MaterialX module exports (mx.Color3, ...)
MxValueTypes == {"Color3", "Vector3", "Matrix44"}

mx_title(t) ==
    CASE t = "color3" -> "Color3"
      [] t = "float"  -> "Float"
      [] OTHER        -> t

\* ------------------------------------------------------------------------
\* The node trees compilation is run on
\* ------------------------------------------------------------------------
\* the name Blender gave the i-th node (names are unique within a tree)
NodeNames(i) ==
    CASE i = 1 -> {"Tex", "Surface"}
      [] i = 2 -> {"Mix.001"}
      [] i = 3 -> {"Mix", "Mix_001"}
      [] OTHER -> {"Node"}

\* the output sockets of a node: MxNode.init / create_output for an MxNode
OutputSockets(nd) ==
    IF nd.kind = "mx"
    THEN { title_str(GraphNodeDefs[nd.data_type].outputs[k].name) :
             k \in 1..Len(GraphNodeDefs[nd.data_type].outputs) }
    ELSE {"BSDF"}

\* the links the in_key-th input socket may carry, given the nodes created
\* before it (a link that is not valid is placed on a first socket only)
SocketLinks(g, in_key) ==
    { << >> } \cup
    { << [from_node |-> j, from_socket |-> s, is_valid |-> b] >> :
        j \in 1..Len(g), s \in UNION { OutputSockets(g[i]) : i \in 1..Len(g) },
        b \in IF in_key = 1 THEN BOOLEAN ELSE {TRUE} }

WellLinked(g, ls) ==
    \A k \in 1..Len(ls) :
        /\ ls[k] \in SocketLinks(g, k)
        /\ ls[k] # << >> => ls[k][1].from_socket \in OutputSockets(g[ls[k][1].from_node])

LinkLists(g, n) ==
    { ls \in [1..n -> SocketLinks(g, 1)] : WellLinked(g, ls) }

\* live literals held on the i-th node: in_<name> for socket k, p_<name> for
\* parameter k (the schema defaults, the "value" attributes, are all 0)
in_val(i, k) == 10 * i + k
p_val(i, k)  == 100 * i + k

MxNodes(i, g, d) ==
    { [kind |-> "mx", name |-> nm, data_type |-> d, links |-> ls,
       in_vals |-> [k \in 1..Len(GraphNodeDefs[d].inputs) |-> in_val(i, k)],
       p_vals  |-> [k \in 1..Len(GraphNodeDefs[d].params) |-> p_val(i, k)]] :
        nm \in NodeNames(i), ls \in LinkLists(g, Len(GraphNodeDefs[d].inputs)) }

NodeChoices(g) ==
    LET i == Len(g) + 1 IN
    { [kind |-> "foreign", name |-> nm, data_type |-> "", links |-> << >>,
       in_vals |-> << >>, p_vals |-> << >>] : nm \in NodeNames(i) }
    \cup UNION { MxNodes(i, g, d) : d \in GraphDefIds }

RECURSIVE Trees(_)
Trees(k) ==
    IF k = 0 THEN { << >> }
    ELSE UNION { { Append(g, nd) : nd \in NodeChoices(g) } : g \in Trees(k - 1) }

\* MxNode_Output.init: the inputs Surface, Volume and Displacement
OutputLinks(g) ==
    { [Surface |-> s[1], Volume |-> v, Displacement |-> v] :
        s \in LinkLists(g, 1),
        v \in { << >>,
                << [from_node |-> Len(g),
                    from_socket |-> CHOOSE o \in OutputSockets(g[Len(g)]) : TRUE,
                    is_valid |-> TRUE] >> } }

\* ------------------------------------------------------------------------
\* The compiler
\* ------------------------------------------------------------------------
\* the compilation state threaded through the recursion: the document, the
\* completed compute calls and the log
CState(d, c, l) == [doc |-> d, calls |-> c, log |-> l]

Ret(st, res) == [st |-> st, res |-> res]

Logged(S, level, msg, subject) ==
    [S EXCEPT !.log = Append(@, [level |-> level, msg |-> msg, subject |-> subject])]

\* MxNode.prop: the property group of the active data_type
prop(n) == GraphNodeDefs[nodes[n].data_type]

\* mx_nodedef.getOutput(name): the output of that name, None when absent
getOutput(nd, name) ==
    IF \E k \in 1..Len(nd.outputs) : nd.outputs[k].name = name
    THEN nd.outputs[CHOOSE k \in 1..Len(nd.outputs) : nd.outputs[k].name = name]
    ELSE None

get_nodedef_output(n, out_key) == getOutput(prop(n), code_str(out_key))

get_nodedef_input(n, in_key) == prop(n).inputs[in_key]

\* faulty variant of get_input_default: the schema default instead of the live value
get_input_default_schema(n, in_key) == 0

get_input_default(n, in_key) == nodes[n].in_vals[in_key]

get_param_value(n, k) == nodes[n].p_vals[k]

\* set_value inside MxNode.compute: what is stored on an input or parameter
set_value(name, val, nd_type, d) ==
    IF val.kind = "node"
    THEN [name |-> name, type |-> nd_type, set |-> "nodename", value |-> d[val.idx].name]
    ELSE IF nd_type = "filename"
    THEN [name |-> name, type |-> nd_type, set |-> "valuestring", value |-> val.v]
    ELSE IF mx_title(nd_type) \in MxValueTypes
    THEN [name |-> name, type |-> nd_type, set |-> mx_title(nd_type), value |-> val.v]
    ELSE [name |-> name, type |-> nd_type, set |-> "value", value |-> val.v]

\* doc.addNode(category, name, type)
addNode(d, category, name, type) ==
    Append(d, [category |-> category, name |-> name, type |-> type,
               inputs |-> << >>, params |-> << >>])

RECURSIVE compute(_, _, _)
RECURSIVE input_values(_, _, _)

\* MxNode._compute_node
compute_node(from, out_key, S) ==
    IF nodes[from].kind # "mx"
    THEN Ret(Logged(S, "warn", "Ignoring unsupported node", from), None)
    ELSE compute(from, out_key, S)

\* MxNode.get_input_link on the links of one input socket
get_input_link(owner, links, S) ==
    IF links = << >>
    THEN Ret(S, None)
    ELSE LET link == links[1]
             S1 == IF ~link.is_valid
                   THEN Logged(S, "error", "Invalid link found", owner)
                   ELSE S
         IN compute_node(link.from_node, link.from_socket, S1)

\* an assignment `x = v` followed by the statements F(x): v is computed once
With(v, F(_)) == F(v)

\* faulty variant of get_input_value: no fallback to the socket's own value
get_input_value_no_default(n, in_key, S) ==
    With(get_input_link(n, nodes[n].links[in_key], S), LAMBDA r :
        IF r.res # None
        THEN Ret(r.st, [kind |-> "node", idx |-> r.res])
        ELSE Ret(r.st, [kind |-> "literal", v |-> None]))

\* MxNode.get_input_value
get_input_value(n, in_key, S) ==
    With(get_input_link(n, nodes[n].links[in_key], S), LAMBDA r :
        IF r.res # None
        THEN Ret(r.st, [kind |-> "node", idx |-> r.res])
        ELSE Ret(r.st, [kind |-> "literal", v |-> get_input_default(n, in_key)]))

\* statements run in program order: `first` is evaluated before `next`
Then(first, next) == IF first = first THEN next ELSE next

\* the loop of MxNode.compute over range(len(self.inputs)), from in_key on
input_values(n, in_key, S) ==
    IF in_key > Len(nodes[n].links)
    THEN Ret(S, << >>)
    ELSE With(get_input_value(n, in_key, S), LAMBDA r :
            Then(r, With(input_values(n, in_key + 1, r.st), LAMBDA rest :
                        Ret(rest.st, << r.res >> \o rest.res))))

\* the node MxNode.compute adds at the end of document d, filled with the
\* collected input values and the parameter values
new_node(n, nd_output, values, d) ==
    LET nodedef == prop(n)
        ins     == [k \in 1..Len(values) |->
                      set_value(get_nodedef_input(n, k).name, values[k],
                                get_nodedef_input(n, k).type, d)]
        ps      == [k \in 1..Len(nodedef.params) |->
                      set_value(nodedef.params[k].name,
                                [kind |-> "literal", v |-> get_param_value(n, k)],
                                nodedef.params[k].type, d)]
    IN [category |-> nodedef.node, name |-> code_str(nodes[n].name),
        type |-> nd_output.type, inputs |-> ins, params |-> ps]

\* MxNode.compute
compute(n, out_key, S) ==
    With(input_values(n, 1, S), LAMBDA vs :
        With(addNode(vs.st.doc, prop(n).node, code_str(nodes[n].name),
                     get_nodedef_output(n, out_key).type), LAMBDA d1 :
            Ret(CState([d1 EXCEPT ![Len(d1)] =
                            new_node(n, get_nodedef_output(n, out_key), vs.res, d1)],
                       Append(vs.st.calls,
                              [node |-> n, out_key |-> out_key, idx |-> Len(d1)]),
                       vs.st.log),
                Len(d1))))

\* the surface node MxNode_Output.compute wraps around document node `node`
surface_wrap(st, node) ==
    With(addNode(st.doc, "surface", "surface", "surfaceshader"), LAMBDA d1 :
        Ret([st EXCEPT !.doc = [d1 EXCEPT ![Len(d1)].inputs =
                                   << [name |-> "bsdf", type |-> node.type,
                                       set |-> "nodename", value |-> node.name] >>]],
            Len(d1)))

\* faulty variant of output_compute: the upstream type is compared with "material"
output_compute_material(S) ==
    With(get_input_link(0, output.Surface, S), LAMBDA r :
        IF r.res = None
        THEN Ret(r.st, None)
        ELSE IF r.st.doc[r.res].type = "material"
        THEN Ret(r.st, r.res)
        ELSE surface_wrap(r.st, r.st.doc[r.res]))

\* faulty variant of output_compute: Volume is compiled when Surface has no link
output_compute_volume(S) ==
    With(get_input_link(0, IF output.Surface # << >> THEN output.Surface
                           ELSE output.Volume, S), LAMBDA r :
        IF r.res = None
        THEN Ret(r.st, None)
        ELSE IF r.st.doc[r.res].type = "surfaceshader"
        THEN Ret(r.st, r.res)
        ELSE surface_wrap(r.st, r.st.doc[r.res]))

\* MxNode_Output.compute
output_compute(S) ==
    With(get_input_link(0, output.Surface, S), LAMBDA r :
        IF r.res = None
        THEN Ret(r.st, None)
        ELSE IF r.st.doc[r.res].type = "surfaceshader"
        THEN Ret(r.st, r.res)
        ELSE surface_wrap(r.st, r.st.doc[r.res]))

\* ------------------------------------------------------------------------
\* Schema strings.  A type string is the sequence of its characters, so that
\* the patterns of create_property are matched character by character.
\* ------------------------------------------------------------------------
S_string   == << "s","t","r","i","n","g" >>
S_filename == << "f","i","l","e","n","a","m","e" >>
S_integer  == << "i","n","t","e","g","e","r" >>
S_float    == << "f","l","o","a","t" >>
S_boolean  == << "b","o","o","l","e","a","n" >>
S_matrix   == << "m","a","t","r","i","x" >>
S_color    == << "c","o","l","o","r" >>
S_vector   == << "v","e","c","t","o","r" >>
S_array    == << "a","r","r","a","y" >>
S_colour   == << "c","o","l","o","u","r" >>

\* 'surfaceshader', 'displacementshader', 'volumeshader', 'lightshader',
\* 'material', 'BSDF', 'VDF', 'EDF'
ShaderTypes ==
    { << "s","u","r","f","a","c","e","s","h","a","d","e","r" >>,
      << "d","i","s","p","l","a","c","e","m","e","n","t","s","h","a","d","e","r" >>,
      << "v","o","l","u","m","e","s","h","a","d","e","r" >>,
      << "l","i","g","h","t","s","h","a","d","e","r" >>,
      << "m","a","t","e","r","i","a","l" >>,
      << "B","S","D","F" >>, << "V","D","F" >>, << "E","D","F" >> }

Digits == << "0","1","2","3","4","5","6","7","8","9" >>

\* \d
is_digit(c) == \E i \in 1..Len(Digits) : Digits[i] = c

\* int(m[i]) of a matched digit
int_of(c) == (CHOOSE i \in 1..Len(Digits) : Digits[i] = c) - 1

starts_with(t, prefix) ==
    Len(t) >= Len(prefix) /\ SubSeq(t, 1, Len(prefix)) = prefix

\* re.fullmatch('matrix(\d)(\d)', mx_type)
match_matrix(t) ==
    /\ Len(t) = Len(S_matrix) + 2
    /\ starts_with(t, S_matrix)
    /\ is_digit(t[Len(t) - 1])
    /\ is_digit(t[Len(t)])

\* re.fullmatch('color(\d)', mx_type)
match_color(t) ==
    Len(t) = Len(S_color) + 1 /\ starts_with(t, S_color) /\ is_digit(t[Len(t)])

\* re.fullmatch('vector(\d)', mx_type)
match_vector(t) ==
    Len(t) = Len(S_vector) + 1 /\ starts_with(t, S_vector) /\ is_digit(t[Len(t)])

\* re.fullmatch('(.+)array', mx_type)
match_array(t) ==
    /\ Len(t) >= Len(S_array) + 1
    /\ SubSeq(t, Len(t) - Len(S_array) + 1, Len(t)) = S_array

\* faulty variant of vector_subtype: every vector is tagged XYZ
vector_subtype_xyz(dim) == "XYZ"

\* 'XYZ' if dim == 3 else 'NONE'
vector_subtype(dim) == IF dim = 3 THEN "XYZ" ELSE "NONE"

\* ------------------------------------------------------------------------
\* Attribute texts.  A text is the list of its comma-separated pieces; a
\* piece is an integer literal, a decimal literal or a word, possibly with
\* blanks around it.
\* ------------------------------------------------------------------------
Piece(k, v, pad) == [k |-> k, v |-> v, pad |-> pad]

T_zero   == << Piece("int", 0, FALSE) >>
T_one    == << Piece("int", 1, FALSE) >>
T_half   == << Piece("dec", 5, FALSE) >>
T_abc    == << Piece("word", "abc", FALSE) >>
T_true   == << Piece("word", "true", FALSE) >>
T_black  == << Piece("int", 0, FALSE), Piece("int", 0, TRUE), Piece("dec", 5, TRUE) >>
T_choice == << Piece("word", "add", FALSE), Piece("word", "mix", TRUE) >>

\* int(val): one integer literal, blanks around it allowed
int_ok(val) == Len(val) = 1 /\ val[1].k = "int"

\* float(val): one integer or decimal literal, blanks around it allowed
float_ok(val) == Len(val) = 1 /\ val[1].k \in {"int", "dec"}

\* float(x) of one piece: tenths
float_of(piece) == IF piece.k = "int" THEN 10 * piece.v ELSE piece.v

Raise == [raised |-> TRUE, v |-> None]
Value(v) == [raised |-> FALSE, v |-> v]

\* parse_val(prop_type, val, first_only)
parse_val(prop_type, val, first_only) ==
    CASE prop_type = "StringProperty" -> Value(val)
      [] prop_type = "IntProperty" ->
            IF int_ok(val) THEN Value(val[1].v) ELSE Raise
      [] prop_type = "FloatProperty" ->
            IF float_ok(val) THEN Value(float_of(val[1])) ELSE Raise
      [] prop_type = "BoolProperty" ->
            Value(val = T_true)
      [] prop_type = "FloatVectorProperty" ->
            IF \A i \in 1..Len(val) : val[i].k \in {"int", "dec"}
            THEN LET res == [i \in 1..Len(val) |-> float_of(val[i])]
                 IN IF first_only THEN Value(res[1]) ELSE Value(res)
            ELSE Raise
      [] prop_type = "EnumProperty" ->
            LET res == [i \in 1..Len(val) |-> val[i].v]
            IN IF first_only THEN Value(res[1]) ELSE Value(res)
      [] OTHER -> Value(None)

\* the text of an attribute that is not set
NoAttr == << >>

\* a schema element (parameter, input or output) and its attributes
Element(parent, name, type, enum, uiname, uimin, uimax, value) ==
    [parent |-> parent, name |-> name, type |-> type,
     attrs |-> [enum |-> enum, uiname |-> uiname, doc |-> NoAttr,
                uimin |-> uimin, uimax |-> uimax,
                uisoftmin |-> NoAttr, uisoftmax |-> NoAttr, value |-> value]]

hasAttribute(el, key) == el.attrs[key] # NoAttr

\* getAttribute: the empty string for an attribute that is not set
getAttribute(el, key) == el.attrs[key]

\* a property type that sets no attribute and logs nothing
Plain(pt) == [prop_type |-> pt, attrs |-> << >>, warn |-> FALSE]

\* prop_attrs['items'] of an enum
enum_items(el) ==
    With(parse_val("EnumProperty", getAttribute(el, "enum"), FALSE).v, LAMBDA items :
        [i \in 1..Len(items) |->
            << items[i], title_str(items[i]), title_str(items[i]) >>])

\* the dispatch on mx_type in MxNode.create_property: the property type, the
\* attributes it sets and whether "Unsupported mx_type" is logged
map_type(el) ==
    LET t == el.type IN
    IF t = S_string
    THEN IF hasAttribute(el, "enum")
         THEN [prop_type |-> "EnumProperty",
               attrs |-> << <<"items", enum_items(el)>> >>,
               warn |-> FALSE]
         ELSE Plain("StringProperty")
    ELSE IF t = S_filename
    THEN [prop_type |-> "StringProperty", attrs |-> << <<"subtype", "FILE_PATH">> >>,
          warn |-> FALSE]
    ELSE IF t = S_integer THEN Plain("IntProperty")
    ELSE IF t = S_float   THEN Plain("FloatProperty")
    ELSE IF t = S_boolean THEN Plain("BoolProperty")
    ELSE IF t \in ShaderTypes THEN Plain("StringProperty")
    ELSE IF match_matrix(t)
    THEN [prop_type |-> "FloatVectorProperty",
          attrs |-> << <<"subtype", "MATRIX">>,
                       <<"size", int_of(t[Len(t) - 1]) * int_of(t[Len(t)])>> >>,
          warn |-> FALSE]
    ELSE IF match_color(t)
    THEN [prop_type |-> "FloatVectorProperty",
          attrs |-> << <<"subtype", "COLOR">>, <<"size", int_of(t[Len(t)])>> >>,
          warn |-> FALSE]
    ELSE IF match_vector(t)
    THEN [prop_type |-> "FloatVectorProperty",
          attrs |-> << <<"subtype", vector_subtype(int_of(t[Len(t)]))>>,
                       <<"size", int_of(t[Len(t)])>> >>,
          warn |-> FALSE]
    ELSE IF match_array(t) THEN Plain("StringProperty")
    ELSE [prop_type |-> "StringProperty", attrs |-> << >>, warn |-> TRUE]

\* prop_attrs[key] = parse_val(prop_type, getAttribute(attr), first_only) when
\* the element has the attribute
bound_attr(el, prop_type, attr, key, first_only) ==
    IF hasAttribute(el, attr)
    THEN With(parse_val(prop_type, getAttribute(el, attr), first_only), LAMBDA r :
            [raised |-> r.raised, attrs |-> << <<key, r.v>> >>])
    ELSE [raised |-> FALSE, attrs |-> << >>]

\* the attributes read as values, in the order create_property sets them
value_attrs(el, pt) ==
    << bound_attr(el, pt, "uimin", "min", TRUE),
       bound_attr(el, pt, "uimax", "max", TRUE),
       bound_attr(el, pt, "uisoftmin", "soft_min", TRUE),
       bound_attr(el, pt, "uisoftmax", "soft_max", TRUE),
       bound_attr(el, pt, "value", "default", pt = "EnumProperty") >>

\* prop_attrs['name'] and prop_attrs['description']
label_attrs(el) ==
    << <<"name", IF hasAttribute(el, "uiname")
                 THEN getAttribute(el, "uiname")
                 ELSE title_str(el.name)>>,
       <<"description", getAttribute(el, "doc")>> >>

\* MxNode.create_property: prop_name, prop_type, prop_attrs (the dict as the
\* list of its items in insertion order), or an exception from parse_val
create_property(el) ==
    With(map_type(el), LAMBDA m :
        With(value_attrs(el, m.prop_type), LAMBDA vals :
            [raised    |-> \E i \in 1..Len(vals) : vals[i].raised,
             prop_name |-> el.name,
             prop_type |-> m.prop_type,
             prop_attrs |-> m.attrs \o label_attrs(el) \o vals[1].attrs \o vals[2].attrs
                              \o vals[3].attrs \o vals[4].attrs \o vals[5].attrs,
             log       |-> IF m.warn
                           THEN << [level |-> "warn", msg |-> "Unsupported mx_type",
                                    mx_type |-> el.type, subject |-> el.parent] >>
                           ELSE << >>]))

\* ------------------------------------------------------------------------
\* Schema loading: MxNodedef.new, MxNode.new, create_node_types
\* ------------------------------------------------------------------------
\* a Python dict as the list of its items in insertion order: d[key] = val
dict_set(d, key, val) ==
    IF \E i \in 1..Len(d) : d[i][1] = key
    THEN [i \in 1..Len(d) |-> IF d[i][1] = key THEN << key, val >> ELSE d[i]]
    ELSE Append(d, << key, val >>)

dict_keys(d) == [i \in 1..Len(d) |-> d[i][1]]

\* one loop of MxNodedef.new over the elements els from index i on; acc holds
\* the annotations so far, the create_property invocations and the warnings
RECURSIVE annotate(_, _, _, _, _)
annotate(els, i, prefix, kind, acc) ==
    IF acc.raised \/ i > Len(els)
    THEN acc
    ELSE With(create_property(els[i]), LAMBDA r :
            IF r.raised
            THEN [acc EXCEPT !.raised = TRUE,
                             !.calls = Append(@, << kind, els[i].name >>)]
            ELSE annotate(els, i + 1, prefix, kind,
                   [acc EXCEPT
                      !.annotations = dict_set(@, prefix \o r.prop_name,
                                               << r.prop_type, r.prop_attrs >>),
                      !.calls = Append(@, << kind, els[i].name >>),
                      !.log = @ \o r.log]))

\* annotations = {} and no call made yet
no_annotations == [raised |-> FALSE, annotations |-> << >>, calls |-> << >>, log |-> << >>]

\* type('Mx' + mx_nodedef.getName(), (MxNodedef,), data), or the exception
nodedef_type(mx_nodedef, a) ==
    [raised |-> a.raised, calls |-> a.calls, log |-> a.log,
     type |-> [name |-> "Mx" \o mx_nodedef.name, mx_nodedef |-> mx_nodedef,
               annotations |-> a.annotations]]

\* faulty variant of MxNodedef_new: no properties are generated for the outputs
MxNodedef_new_no_outputs(mx_nodedef) ==
    nodedef_type(mx_nodedef,
        annotate(mx_nodedef.inputs, 1, "in_", "input",
            annotate(mx_nodedef.params, 1, "p_", "parameter", no_annotations)))

\* MxNodedef.new: the property group type of one node definition, or the
\* exception create_property raised
MxNodedef_new(mx_nodedef) ==
    nodedef_type(mx_nodedef,
        annotate(mx_nodedef.outputs, 1, "out_", "output",
            annotate(mx_nodedef.inputs, 1, "in_", "input",
                annotate(mx_nodedef.params, 1, "p_", "parameter", no_annotations))))

\* the variant selector of MxNode.new: annotations['data_type'] (the display
\* label of an item is left out)
data_type_prop(var_items, default) ==
    [prop_type |-> "EnumProperty", name |-> "Data Type", items |-> var_items,
     default |-> default]

RECURSIVE pointer_annotations(_, _, _)
pointer_annotations(nd_types, i, d) ==
    IF i > Len(nd_types) THEN d
    ELSE pointer_annotations(nd_types, i + 1,
            dict_set(d, nd_types[i].mx_nodedef.name, nd_types[i].name))

\* MxNode.new: the node type of one group of property group types
MxNode_new(nd_types) ==
    LET mx_nodedefs == [i \in 1..Len(nd_types) |-> nd_types[i].mx_nodedef]
        nd          == mx_nodedefs[1]
        var_items   == [i \in 1..Len(nd_types) |-> nd_types[i].mx_nodedef.name]
    IN [name |-> "MxNode_" \o nd.node,
        bl_idname |-> "hdusd.MxNode_" \o nd.name,
        mx_nodedefs |-> mx_nodedefs,
        pointers |-> dict_keys(pointer_annotations(nd_types, 1, << >>)),
        data_type |-> data_type_prop(var_items, var_items[1])]

\* the try / except around MxNodedef.new for one node definition
load_def(mx_node_def, acc) ==
    With(MxNodedef_new(mx_node_def), LAMBDA r :
        LET made == Append(acc.mapper_calls,
                           [nodedef |-> mx_node_def.name, raised |-> r.raised,
                            calls |-> r.calls])
        IN IF r.raised
           THEN [acc EXCEPT !.mapper_calls = made,
                            !.log = Append(@, [level |-> "error",
                                               msg |-> mx_node_def.name,
                                               subject |-> mx_node_def.name])]
           ELSE [acc EXCEPT !.mapper_calls = made,
                            !.nodedef_types = Append(@, r.type),
                            !.log = @ \o r.log])

\* faulty variant of load_defs: an exception ends the loop over the file's definitions
RECURSIVE load_defs_break(_, _, _)
load_defs_break(mx_node_defs, i, acc) ==
    IF i > Len(mx_node_defs) THEN acc
    ELSE With(load_def(mx_node_defs[i], acc), LAMBDA next :
            IF Len(next.nodedef_types) = Len(acc.nodedef_types)
            THEN next
            ELSE load_defs_break(mx_node_defs, i + 1, next))

\* the loop over doc.getNodeDefs() of one file, from index i on
RECURSIVE load_defs(_, _, _)
load_defs(mx_node_defs, i, acc) ==
    IF i > Len(mx_node_defs) THEN acc
    ELSE load_defs(mx_node_defs, i + 1, load_def(mx_node_defs[i], acc))

\* the loop over file_paths, from index p on
RECURSIVE load_files(_, _, _)
load_files(paths, p, acc) ==
    IF p > Len(paths) THEN acc
    ELSE load_files(paths, p + 1, load_defs(paths[p], 1, acc))

\* faulty variant of group_key: the nodegroup is left out of the key
group_key_node(nd) == << nd.node, "" >>

\* (nd.getNodeString(), nd.getAttribute('nodegroup'))
group_key(nd) == << nd.node, nd.nodegroup >>

\* d[key], the empty list for a key that is not in d yet
dict_get(d, key) ==
    IF \E j \in 1..Len(d) : d[j][1] = key
    THEN d[CHOOSE j \in 1..Len(d) : d[j][1] = key][2]
    ELSE << >>

\* d[key].append(nd_type) on the defaultdict(list), kept in insertion order
RECURSIVE group_types(_, _, _)
group_types(types, i, d) ==
    IF i > Len(types) THEN d
    ELSE group_types(types, i + 1,
            dict_set(d, group_key(types[i].mx_nodedef),
                     Append(dict_get(d, group_key(types[i].mx_nodedef)), types[i])))

\* create_node_types
create_node_types(paths) ==
    With(load_files(paths, 1,
            [nodedef_types |-> << >>, mapper_calls |-> << >>, log |-> << >>]),
         LAMBDA loaded :
            With(group_types(loaded.nodedef_types, 1, << >>), LAMBDA d :
                [nodedef_types |-> loaded.nodedef_types,
                 node_types    |-> [g \in 1..Len(d) |-> MxNode_new(d[g][2])],
                 mapper_calls  |-> loaded.mapper_calls,
                 log           |-> loaded.log]))

\* ------------------------------------------------------------------------
\* Spec: one compilation pass started from the Material Output node
\* ------------------------------------------------------------------------
InitCompile ==
    /\ nodes \in Trees(MaxNodes)
    /\ output \in OutputLinks(nodes)
    /\ pc = "idle"
    /\ doc = << >>
    /\ calls = << >>
    /\ log = << >>
    /\ result = None

OutputCompute ==
    /\ pc = "idle"
    /\ \E r \in { output_compute(CState(doc, calls, log)) } :
        /\ doc' = r.st.doc
        /\ calls' = r.st.calls
        /\ log' = r.st.log
        /\ result' = r.res
    /\ pc' = "done"
    /\ UNCHANGED <<nodes, output>>

CompileIdle ==
    /\ nodes = << >>
    /\ output = [Surface |-> << >>, Volume |-> << >>, Displacement |-> << >>]
    /\ pc = "idle"
    /\ doc = << >>
    /\ calls = << >>
    /\ log = << >>
    /\ result = None

SchemaIdle ==
    /\ file_paths = << >>
    /\ spc = "idle"
    /\ nodedef_types = << >>
    /\ node_types = << >>
    /\ mapper_calls = << >>

MapperIdle ==
    /\ mx_param = None
    /\ mpc = "idle"
    /\ mres = None

Init == InitCompile /\ SchemaIdle /\ MapperIdle

Next == OutputCompute /\ UNCHANGED schemaVars /\ UNCHANGED mapperVars

Spec == Init /\ [][Next]_vars

\* ------------------------------------------------------------------------
\* Vocabulary of the compiler claims
\* ------------------------------------------------------------------------
Done == pc = "done"

IsMx(n) == nodes[n].kind = "mx"

Linked(ls) == ls # << >>

\* the literal an input or parameter holds, as opposed to a reference by name
HoldsLiteral(slot, v) == slot.set # "nodename" /\ slot.value = v

HoldsReference(slot, name) == slot.set = "nodename" /\ slot.value = name

\* the declared type of the output a socket of node n stands for
DeclaredType(n, socket) ==
    LET outs == GraphNodeDefs[nodes[n].data_type].outputs
    IN outs[CHOOSE k \in 1..Len(outs) : title_str(outs[k].name) = socket].type

\* shader nodes the pass must reach: from the Surface link, through first links
RECURSIVE ReachFrom(_, _)
ReachFrom(frontier, seen) ==
    IF frontier \subseteq seen THEN seen
    ELSE LET new  == frontier \ seen
             succ == UNION { { nodes[m].links[j][1].from_node :
                                 j \in { j \in 1..Len(nodes[m].links) :
                                           Linked(nodes[m].links[j]) } } :
                             m \in { m \in new : IsMx(m) } }
         IN ReachFrom(succ, seen \cup new)

Reached ==
    IF Linked(output.Surface)
    THEN ReachFrom({output.Surface[1].from_node}, {})
    ELSE {}

\* C1: within one pass every (graph node, output socket) pair is emitted at
\* most once: no pair has two compute calls that each added a node, so a node
\* whose output feeds two consumers has exactly one node in the document.
C1_EmittedOnce ==
    Done => \A i, j \in 1..Len(calls) :
                (calls[i].node = calls[j].node /\ calls[i].out_key = calls[j].out_key)
                    => i = j

C3_CallOk(i) ==
    LET c   == calls[i]
        n   == c.node
        def == GraphNodeDefs[nodes[n].data_type]
        nd  == doc[c.idx]
    IN /\ nd.category = def.node
       /\ nd.type = DeclaredType(n, c.out_key)
       /\ Len(nd.inputs) = Len(nodes[n].links)
       /\ Len(nd.inputs) = Len(def.inputs)
       /\ \A k \in 1..Len(nd.inputs) :
            /\ nd.inputs[k].name = def.inputs[k].name
            /\ nd.inputs[k].type = def.inputs[k].type
            /\ IF Linked(nodes[n].links[k])
               THEN LET link == nodes[n].links[k][1] IN
                    /\ HoldsReference(nd.inputs[k], code_str(nodes[link.from_node].name))
                    /\ \E j \in 1..(i - 1) :
                         /\ calls[j].node = link.from_node
                         /\ calls[j].out_key = link.from_socket
                         /\ calls[j].idx < c.idx
                         /\ doc[calls[j].idx].name = nd.inputs[k].value
               ELSE HoldsLiteral(nd.inputs[k], nodes[n].in_vals[k])
       /\ Len(nd.params) = Len(def.params)
       /\ \A k \in 1..Len(nd.params) :
            /\ nd.params[k].name = def.params[k].name
            /\ nd.params[k].type = def.params[k].type
            /\ HoldsLiteral(nd.params[k], nodes[n].p_vals[k])

UpstreamSupported(n) ==
    \A k \in 1..Len(nodes[n].links) :
        Linked(nodes[n].links[k]) => IsMx(nodes[n].links[k][1].from_node)

C5_InvalidLinkIsUnlinked ==
    Done =>
        /\ \A i \in 1..Len(calls) :
             LET n == calls[i].node IN
             \A k \in 1..Len(nodes[n].links) :
                (Linked(nodes[n].links[k]) /\ ~nodes[n].links[k][1].is_valid)
                    => HoldsLiteral(doc[calls[i].idx].inputs[k], nodes[n].in_vals[k])
        /\ (Linked(output.Surface) /\ ~output.Surface[1].is_valid)
                => (result = None /\ doc = << >>)

\* C6: with no link on Surface the terminal compute returns None and adds
\* nothing to the document, whatever Volume and Displacement are linked to.
C6_NoSurfaceNoResult ==
    (Done /\ ~Linked(output.Surface)) =>
        /\ result = None
        /\ doc = << >>
        /\ calls = << >>

\* Surface is unlinked while Volume and Displacement are linked
C6_Witness ==
    /\ Done
    /\ ~Linked(output.Surface)
    /\ Linked(output.Volume)
    /\ Linked(output.Displacement)
    /\ IsMx(output.Volume[1].from_node)

\* the document nodes that carry the name an input refers to
Referents(slot) == { j \in 1..Len(doc) : doc[j].name = slot.value }

\* every by-name reference points at a node added earlier
RefsPointBack ==
    \A i \in 1..Len(doc) : \A k \in 1..Len(doc[i].inputs) :
        doc[i].inputs[k].set = "nodename" =>
            \E j \in Referents(doc[i].inputs[k]) : j < i

\* no two nodes of the document share a name
NamesDistinct ==
    \A i, j \in 1..Len(doc) : doc[i].name = doc[j].name => i = j

C11_RefsPointBack == Done => RefsPointBack

\* ------------------------------------------------------------------------
\* SpecMapper: create_property on one schema element
\* ------------------------------------------------------------------------
RECURSIVE DigitStrings(_)
DigitStrings(k) ==
    IF k = 0 THEN { << >> }
    ELSE DigitStrings(k - 1) \cup
         { Append(ds, Digits[i]) : ds \in DigitStrings(k - 1), i \in 1..Len(Digits) }

ScalarTypes == {S_string, S_filename, S_integer, S_float, S_boolean}

TypePool ==
    ScalarTypes \cup ShaderTypes
    \cup { family \o ds : family \in {S_matrix, S_color, S_vector, S_colour},
                          ds \in DigitStrings(MaxDigits) }
    \cup { element \o S_array :
             element \in { << >>, << "x" >>, S_float, S_string, S_color \o << "3" >> } }
    \cup { << >>, << "C","o","l","o","r","3" >>, S_array \o << "s" >> }

MapperElements ==
    { Element("ND_node_x", "in1", t, enum, NoAttr, uimin, NoAttr, value) :
        t \in TypePool,
        enum \in {NoAttr, T_choice},
        uimin \in {NoAttr, T_zero},
        value \in {NoAttr, T_one, T_half, T_abc, T_black, T_true} }

InitMapper ==
    /\ CompileIdle
    /\ SchemaIdle
    /\ mx_param \in MapperElements
    /\ mpc = "idle"
    /\ mres = None

CreateProperty ==
    /\ mpc = "idle"
    /\ mres' = create_property(mx_param)
    /\ mpc' = "done"
    /\ UNCHANGED mx_param

NextMapper == CreateProperty /\ UNCHANGED compileVars /\ UNCHANGED schemaVars

SpecMapper == InitMapper /\ [][NextMapper]_vars

\* whether create_property set a key of prop_attrs, and the value it stored
HasAttr(r, key) == \E i \in 1..Len(r.prop_attrs) : r.prop_attrs[i][1] = key

Attr(r, key) ==
    r.prop_attrs[CHOOSE i \in 1..Len(r.prop_attrs) : r.prop_attrs[i][1] = key][2]

DigitRange == 0..9

ColorType(n)     == S_color \o << Digits[n + 1] >>
VectorType(n)    == S_vector \o << Digits[n + 1] >>
MatrixType(r, c) == S_matrix \o << Digits[r + 1], Digits[c + 1] >>

EndsInArray(t) ==
    Len(t) >= Len(S_array) /\ SubSeq(t, Len(t) - Len(S_array) + 1, Len(t)) = S_array

FamilyTypes ==
    { ColorType(n) : n \in DigitRange } \cup { VectorType(n) : n \in DigitRange }
    \cup { MatrixType(r, c) : r \in DigitRange, c \in DigitRange }

PlainString(r) ==
    /\ r.prop_type = "StringProperty"
    /\ ~HasAttr(r, "subtype")
    /\ ~HasAttr(r, "size")

Warned(r) ==
    /\ Len(r.log) = 1
    /\ r.log[1].level = "warn"
    /\ r.log[1].subject = mx_param.parent
    /\ r.log[1].mx_type = mx_param.type

\* the element carries a text that parse_val is asked to read as a number
HasNumberText(el) ==
    \E key \in {"uimin", "uimax", "uisoftmin", "uisoftmax", "value"} :
        hasAttribute(el, key)

MapperDone == mpc = "done"

\* what C9 says of the three families and of exceptions: sizes, tags, and no
\* type string raises (an exception only comes from parsing an attribute text
\* as a number)
C9_Families ==
    /\ \A n \in DigitRange : mx_param.type = ColorType(n) =>
          /\ mres.prop_type = "FloatVectorProperty"
          /\ Attr(mres, "size") = n
          /\ Attr(mres, "subtype") = "COLOR"
    /\ \A n \in DigitRange : mx_param.type = VectorType(n) =>
          /\ mres.prop_type = "FloatVectorProperty"
          /\ Attr(mres, "size") = n
          /\ (Attr(mres, "subtype") = "XYZ") = (n = 3)
          /\ n # 3 => Attr(mres, "subtype") = "NONE"
    /\ \A r, c \in DigitRange : mx_param.type = MatrixType(r, c) =>
          /\ mres.prop_type = "FloatVectorProperty"
          /\ Attr(mres, "size") = r * c
          /\ Attr(mres, "subtype") = "MATRIX"
    /\ ~HasNumberText(mx_param) => ~mres.raised
    /\ mres.prop_type \in {"StringProperty", "EnumProperty", "BoolProperty"}
            => ~mres.raised

\* C9 as stated: every type ending in 'array' and every unrecognized type
\* maps to a plain string property, and only the unrecognized type is warned
\* about.
C9_AsStated ==
    MapperDone =>
        /\ C9_Families
        /\ EndsInArray(mx_param.type) => (PlainString(mres) /\ mres.log = << >>)
        /\ (mx_param.type \notin ScalarTypes \cup ShaderTypes \cup FamilyTypes
            /\ ~EndsInArray(mx_param.type)) => (PlainString(mres) /\ Warned(mres))
        /\ mx_param.type \in ScalarTypes \cup ShaderTypes \cup FamilyTypes
                => mres.log = << >>

\* C9 (amended): as stated, but the array rule needs a non-empty element type
\* before 'array': the bare type 'array' is an unrecognized type, mapped to a
\* plain string property with the warning.
C9_TypeMapper ==
    MapperDone =>
        /\ C9_Families
        /\ (EndsInArray(mx_param.type) /\ mx_param.type # S_array)
                => (PlainString(mres) /\ mres.log = << >>)
        /\ (mx_param.type \notin ScalarTypes \cup ShaderTypes \cup FamilyTypes
            /\ (~EndsInArray(mx_param.type) \/ mx_param.type = S_array))
                => (PlainString(mres) /\ Warned(mres))
        /\ mx_param.type \in ScalarTypes \cup ShaderTypes \cup FamilyTypes
                => mres.log = << >>

\* a 3 x 4 matrix was mapped
C9_Witness ==
    /\ MapperDone
    /\ mx_param.type = MatrixType(3, 4)
    /\ Attr(mres, "size") = 12
    /\ ~mres.raised

\* ------------------------------------------------------------------------
\* SpecSchema: create_node_types on a list of schema files
\* ------------------------------------------------------------------------
S_color3 == S_color \o << "3" >>

In(parent, name, type, value) ==
    Element(parent, name, type, NoAttr, NoAttr, NoAttr, NoAttr, value)

NodeDef(name, node, nodegroup, params, inputs, outputs) ==
    [name |-> name, node |-> node, nodegroup |-> nodegroup,
     params |-> params, inputs |-> inputs, outputs |-> outputs]

\* the node definitions the schema files are made of; ND_add_integer carries
\* a default that int() cannot parse
SchemaDefs ==
    { NodeDef("ND_add_float", "add", "math", << >>,
              << In("ND_add_float", "in1", S_float, T_zero),
                 In("ND_add_float", "in2", S_float, T_zero) >>,
              << In("ND_add_float", "out", S_float, NoAttr) >>),
      NodeDef("ND_add_color3", "add", "math", << >>,
              << In("ND_add_color3", "in1", S_color3, T_black) >>,
              << In("ND_add_color3", "out", S_color3, NoAttr) >>),
      NodeDef("ND_add_integer", "add", "math", << >>,
              << In("ND_add_integer", "in1", S_integer, T_abc) >>,
              << In("ND_add_integer", "out", S_integer, NoAttr) >>),
      NodeDef("ND_add_vector3", "add", "",
              << >>,
              << In("ND_add_vector3", "in1", S_vector \o << "3" >>, NoAttr) >>,
              << In("ND_add_vector3", "out", S_vector \o << "3" >>, NoAttr) >>),
      NodeDef("ND_mix_color3", "mix", "compositing",
              << Element("ND_mix_color3", "amount", S_float, NoAttr, NoAttr,
                         T_zero, T_one, T_half) >>,
              << In("ND_mix_color3", "fg", S_color3, T_black),
                 In("ND_mix_color3", "bg", S_color3, T_black) >>,
              << In("ND_mix_color3", "out", S_color3, NoAttr) >>) }

\* the contents of one file: node definition names are unique within a file
UniqueNames(f) == \A i, j \in 1..Len(f) : f[i].name = f[j].name => i = j

RECURSIVE SchemaFiles(_)
SchemaFiles(k) ==
    IF k = 0 THEN { << >> }
    ELSE LET longer == { Append(f, nd) : f \in SchemaFiles(k - 1), nd \in SchemaDefs }
         IN SchemaFiles(k - 1) \cup { f \in longer : UniqueNames(f) }

\* the lists of at most k files that hold at most budget definitions together
RECURSIVE FileLists(_, _)
FileLists(k, budget) ==
    IF k = 0 THEN { << >> }
    ELSE FileLists(k - 1, budget) \cup
         UNION { { << f >> \o fs : fs \in FileLists(k - 1, budget - Len(f)) } :
                   f \in SchemaFiles(budget) }

InitSchema ==
    /\ CompileIdle
    /\ MapperIdle
    /\ file_paths \in FileLists(MaxFiles, MaxDefs)
    /\ spc = "idle"
    /\ nodedef_types = << >>
    /\ node_types = << >>
    /\ mapper_calls = << >>

CreateNodeTypes ==
    /\ spc = "idle"
    /\ \E r \in { create_node_types(file_paths) } :
        /\ nodedef_types' = r.nodedef_types
        /\ node_types' = r.node_types
        /\ mapper_calls' = r.mapper_calls
        /\ log' = r.log
    /\ spc' = "done"
    /\ UNCHANGED file_paths

NextSchema ==
    CreateNodeTypes /\ UNCHANGED <<nodes, output, pc, doc, calls, result>>
                    /\ UNCHANGED mapperVars

SpecSchema == InitSchema /\ [][NextSchema]_vars

\* ------------------------------------------------------------------------
\* Claims on schema loading
\* ------------------------------------------------------------------------
SchemaDone == spc = "done"

\* the definitions of all files, in file order and then in-file order
RECURSIVE Flatten(_)
Flatten(paths) ==
    IF paths = << >> THEN << >> ELSE Head(paths) \o Flatten(Tail(paths))

AllDefs == Flatten(file_paths)

ElementsOf(nd) == nd.params \o nd.inputs \o nd.outputs

\* building the definition fails: the type mapper raises on one of its elements
Fails(nd) == \E i \in 1..Len(ElementsOf(nd)) : create_property(ElementsOf(nd)[i]).raised

Built(nd) == ~Fails(nd)

BuiltDefs == SelectSeq(AllDefs, Built)

FailedDefs == SelectSeq(AllDefs, Fails)

ErrorsLogged == SelectSeq(log, LAMBDA e : e.level = "error")

\* C7: when the loader has run over the list of files, every definition of
\* every file has been attempted, in file order and in-file order; the returned
\* list holds exactly the definitions whose build did not fail, in that order;
\* and each failed definition has one logged error naming it.
C7_SchemaLoading ==
    SchemaDone =>
        /\ Len(mapper_calls) = Len(AllDefs)
        /\ \A i \in 1..Len(AllDefs) :
              /\ mapper_calls[i].nodedef = AllDefs[i].name
              /\ mapper_calls[i].raised = Fails(AllDefs[i])
        /\ Len(nodedef_types) = Len(BuiltDefs)
        /\ \A i \in 1..Len(BuiltDefs) : nodedef_types[i].mx_nodedef = BuiltDefs[i]
        /\ Len(ErrorsLogged) = Len(FailedDefs)
        /\ \A i \in 1..Len(FailedDefs) : ErrorsLogged[i].subject = FailedDefs[i].name

\* a failing definition is followed by a definition of the same file and by
\* one of a later file, and both were built
C7_Witness ==
    /\ SchemaDone
    /\ Len(file_paths) = 2
    /\ Len(file_paths[1]) = 2
    /\ Fails(file_paths[1][1])
    /\ Built(file_paths[1][2])
    /\ Len(file_paths[2]) >= 1
    /\ Built(file_paths[2][1])
    /\ Len(nodedef_types) >= 2
    /\ nodedef_types[1].mx_nodedef = file_paths[1][2]
    /\ nodedef_types[2].mx_nodedef = file_paths[2][1]

\* the grouping key of a node definition
KeyOf(nd) == << nd.node, nd.nodegroup >>

GroupKeys == { KeyOf(BuiltDefs[i]) : i \in 1..Len(BuiltDefs) }

\* the members of a group, in group order
Members(key) == SelectSeq(BuiltDefs, LAMBDA nd : KeyOf(nd) = key)

Identifiers(t) == t.data_type.items

Distinct(seq) == \A i, j \in 1..Len(seq) : seq[i] = seq[j] => i = j

\* one type per group, its variants are the group's members in group order,
\* and the selector defaults to the first of them
C8_OneTypePerGroup ==
    /\ \A key \in GroupKeys :
          \E g \in 1..Len(node_types) :
              /\ node_types[g].mx_nodedefs = Members(key)
              /\ \A h \in 1..Len(node_types) :
                    KeyOf(node_types[h].mx_nodedefs[1]) = key => h = g
    /\ \A g \in 1..Len(node_types) :
          LET t == node_types[g]
              key == KeyOf(t.mx_nodedefs[1])
          IN /\ t.mx_nodedefs = Members(key)
             /\ Len(Identifiers(t)) = Len(Members(key))
             /\ \A i \in 1..Len(Members(key)) : Identifiers(t)[i] = Members(key)[i].name
             /\ t.data_type.default = Members(key)[1].name

Keys(prefix, els) == [i \in 1..Len(els) |-> prefix \o els[i].name]

Calls(kind, els) == [i \in 1..Len(els) |-> << kind, els[i].name >>]

\* C10 as stated: the type mapper is invoked once per parameter and once per
\* input and never for an output, and the property keys of a built definition
\* are the 'p_' keys of its parameters followed by the 'in_' keys of its inputs.
C10_AsStated ==
    SchemaDone =>
        /\ \A i \in 1..Len(AllDefs) :
              Built(AllDefs[i]) =>
                  mapper_calls[i].calls = Calls("parameter", AllDefs[i].params)
                                          \o Calls("input", AllDefs[i].inputs)
        /\ \A i \in 1..Len(nodedef_types) :
              dict_keys(nodedef_types[i].annotations) =
                  Keys("p_", nodedef_types[i].mx_nodedef.params)
                  \o Keys("in_", nodedef_types[i].mx_nodedef.inputs)

\* C10: for a definition that builds, the type mapper is invoked once per
\* parameter, then once per input, then once per output, and the property keys
\* are 'p_'+name, 'in_'+name and 'out_'+name in that order.
C10_PropertyGeneration ==
    SchemaDone =>
        /\ \A i \in 1..Len(AllDefs) :
              Built(AllDefs[i]) =>
                  mapper_calls[i].calls = Calls("parameter", AllDefs[i].params)
                                          \o Calls("input", AllDefs[i].inputs)
                                          \o Calls("output", AllDefs[i].outputs)
        /\ \A i \in 1..Len(nodedef_types) :
              dict_keys(nodedef_types[i].annotations) =
                  Keys("p_", nodedef_types[i].mx_nodedef.params)
                  \o Keys("in_", nodedef_types[i].mx_nodedef.inputs)
                  \o Keys("out_", nodedef_types[i].mx_nodedef.outputs)

\* a definition with a parameter, two inputs and an output has been built
C10_Witness ==
    /\ SchemaDone
    /\ \E i \in 1..Len(nodedef_types) :
          /\ Len(nodedef_types[i].mx_nodedef.params) = 1
          /\ Len(nodedef_types[i].mx_nodedef.inputs) = 2
          /\ Len(nodedef_types[i].mx_nodedef.outputs) = 1
          /\ dict_keys(nodedef_types[i].annotations) =
                << "p_amount", "in_fg", "in_bg", "out_out" >>

=============================================================================
